---- MODULE Spec2Model ----
(***************************************************************************)
(* GLB -> FBX -> UE5 import pipeline.                                      *)
(*   gui.py            ImportWorker.run   (the job)                        *)
(*   blender_bridge.py process_glb        (the conversion stage)           *)
(*   ue5_bridge.py     import_fbx         (discovery, command channel)     *)
(*   ue5_bridge.py     do_import          (the command run by the editor)  *)
(*   gui.py            MainWindow         (the window: SpecGui)            *)
(*   scripts/blender_process.py  main     (the script: SpecScript)         *)
(*   blender_bridge.py find_blender       (the tool search: SpecFind)      *)
(* A call is a job (ImportWorker.run) or a direct call of one of the       *)
(* module functions process_glb and import_fbx.  The editor's content      *)
(* folder persists from one call to the next.                              *)
(***************************************************************************)
EXTENDS Naturals, Sequences, FiniteSets, TLC

\* ------------------------------------------------------------- bounds
\* Calls (jobs or direct import_fbx calls) made one after another.
MaxCalls == 2
\* The discovery timeout counted in poll sleeps (10.0 s / 0.5 s in the code).
MaxPolls == 2
\* Worker threads the window starts.
MaxJobs == 2
\* Objects in the file the script loads.
MaxObjs == 4

\* ------------------------------------------------------------- time
\* Time is counted in ticks of a quarter of a second: time.sleep(0.5) takes
\* PollTicks ticks.
PollTicks == 2
\* The default discovery_timeout (10.0 s in the code): MaxPolls sleeps.
DefaultTimeout == MaxPolls * PollTicks
\* The discovery_timeout values of direct calls.
Timeouts == 0..DefaultTimeout

VARIABLES
  pc,          \* control location of the running call
  caller,      \* "none" | "run" (ImportWorker.run) | "api" (import_fbx called directly)
               \* | "conv" (process_glb called directly)
  calls,       \* number of calls started so far
  job,         \* the ImportWorker's fields / import_fbx's arguments
  temp_dir,    \* run's local temp_dir: FALSE is None
  tempExists,  \* the directory temp_dir names exists on disk
  exc,         \* exception in flight ("none" when there is none)
  finishedLog, \* emissions of the 'finished' signal, in order
  progressLog, \* emissions of the 'progress' signal, in order
  warned,      \* a "[UE5] Warning: ..." status line was emitted
  stages,      \* stage invocations of this call, in order
  failedAt,    \* the stage that failed ("none" when none did)
  spawned,     \* conversion subprocesses spawned by this call
  faults,      \* failures the environment produced during this call
  session,     \* RemoteExecution session: "none" | "started" | "stopped"
  nodes,       \* remote.remote_nodes is non-empty
  elapsed,     \* poll sleeps done by the discovery loop (0 again once a node was found)
  conn,        \* command connection: "none" | "open" | "closed"
  sent,        \* the command of this call was transmitted
  nodeAtCheck, \* what the check after the discovery loop read: "unread" | "none" | "known"
  fbxResult,   \* how import_fbx ended
  edQueue,     \* commands received by the editor and not yet started
  edpc,        \* the editor's position in do_import
  edCmd,       \* the command the editor is executing
  edResp,      \* responses the editor produced: [id, success]
  index,       \* the editor's virtual asset index under the content folder
  vdirs,       \* virtual sub-folders of the content folder
  diskDir,     \* the content folder exists on backing storage
  disk,        \* entries of the content folder on backing storage
  edTask,      \* the import task the editor executed for this call's command
  edCollision, \* meshes whose collision this call's command set to complex-as-simple
  edImported,  \* imported_mesh_paths of the command being executed
  imported,    \* names of the assets earlier calls' commands imported
  cleaned,     \* folders this call's command reported as "Cleaned up leftover temp folder"
  convEnv,     \* what the conversion call of this call met: tool, input, subprocess, output
  argv,        \* the options on the command line of the spawned subprocess
  procAlive,   \* the spawned subprocess is still running
  convResult,  \* how a direct call of process_glb ended
  discovery_timeout, \* import_fbx's discovery_timeout, in ticks
  file_input,  \* MainWindow: the text of the file field
  import_btn,  \* MainWindow: the Import button is enabled
  browse_btn,  \* MainWindow: the Browse button is enabled
  progress_bar, \* MainWindow: the progress bar is visible
  worker,      \* MainWindow._worker: 0 is None, else the number of a worker
  worker_thread, \* MainWindow._worker_thread: 0 is None, else the number of a worker's thread
  threads,     \* each worker thread started from the window, by number
  crashed,     \* the process was aborted
  spc,         \* blender_process.py: position of main
  args,        \* blender_process.py: the parsed command line
  loaded,      \* the objects the input file holds, as the importer creates them
  scene,       \* bpy.data.objects
  host,        \* the machine find_blender runs on: platform, environment, files
  located      \* what find_blender returned

jobVars == <<pc, caller, calls, job, temp_dir, tempExists, exc, finishedLog,
             progressLog, warned, stages, failedAt, spawned, faults>>
fbxVars == <<session, nodes, elapsed, conn, sent, nodeAtCheck, fbxResult>>
edVars  == <<edQueue, edpc, edCmd, edResp, index, vdirs, diskDir, disk,
             edTask, edCollision, edImported>>
histVars == <<imported, cleaned>>
convVars == <<convEnv, argv, procAlive, convResult>>
guiVars == <<file_input, import_btn, browse_btn, progress_bar, worker, worker_thread, threads, crashed>>
discVars == <<discovery_timeout>>
scriptVars == <<spc, args, loaded, scene>>
findVars == <<host, located>>
toolVars == <<scriptVars, findVars>>
mainVars == <<jobVars, fbxVars, edVars, histVars, convVars, discVars, toolVars>>
auxVars == <<histVars, convVars, discVars, guiVars, toolVars>>
vars    == <<jobVars, fbxVars, edVars, auxVars>>

\* ------------------------------------------------------------- names
\* A file name is the sequence of its dot-separated parts: "A.glb" is <<"A","glb">>.
GlbNames == { <<"A", "glb">>, <<"B", "glb">> }

\* pathlib's .stem: the name without its last suffix.
Stem(f) == IF Len(f) > 1 THEN SubSeq(f, 1, Len(f) - 1) ELSE f

\* gui.py: fbx_path = os.path.join(dir, f"{stem}.fbx")
FbxNameOf(glb) == Stem(glb) \o <<"fbx">>

FbxNames == { FbxNameOf(g) : g \in GlbNames }

\* Decimation ratios, in percent (the form's spin box: 0.0 .. 1.0).
Ratios == {50, 100}

Jobs ==
  [ glb : GlbNames, import_materials : BOOLEAN, complex_collision : BOOLEAN,
    merge_meshes : BOOLEAN, merge_children : BOOLEAN, source_folder : BOOLEAN,
    decimate_ratio : Ratios ]

\* Arguments of a direct import_fbx call, in the shape of a job.
ApiJobs ==
  { j \in Jobs : /\ j.merge_children = FALSE /\ j.source_folder = FALSE
                 /\ j.decimate_ratio = 100 }

\* Arguments of a direct process_glb call, in the shape of a job.
ConvJobs ==
  { j \in Jobs : /\ j.merge_children = FALSE /\ j.source_folder = FALSE
                 /\ ~j.import_materials /\ ~j.complex_collision /\ ~j.merge_meshes }

NoJob == [ glb |-> <<>>, import_materials |-> FALSE, complex_collision |-> FALSE,
           merge_meshes |-> FALSE, merge_children |-> FALSE, source_folder |-> FALSE,
           decimate_ratio |-> 100 ]

NoResult == [ kind |-> "none", success |-> FALSE, warning |-> FALSE, exc |-> "none" ]
NoCmd == [ id |-> 0, asset |-> <<>>, import_materials |-> FALSE,
           complex_collision |-> FALSE, combine_meshes |-> FALSE ]
NoTask == [ branch |-> "none" ]

\* ------------------------------------------------------------- signals
Finished(ok, msg) == Append(finishedLog, [success |-> ok, message |-> msg])
\* The progress signal emitted twice for one checkpoint.
ProgressTwice(log, n) == Append(Append(log, n), n)

\* self.progress.emit(n)
Progress(log, n) == Append(log, n)

\* ------------------------------------------------------------- call binding
\* The parameters of process_glb, in order.
ProcessGlbParams == <<"glb_path", "decimate_ratio", "output_fbx_path", "timeout">>

\* The call in ImportWorker.run: three positional arguments and one keyword.
RunConvertCall == [ npos |-> Len(<<"glb_path", "decimate_ratio", "fbx_path">>),
                    kws |-> {"merge_children"} ]

\* Python's argument binding: every keyword names a parameter that no
\* positional argument has taken; otherwise the call raises TypeError before
\* the callee's body runs.
CallBinds(params, call) ==
  /\ call.npos <= Len(params)
  /\ \A k \in call.kws : \E i \in (call.npos + 1)..Len(params) : params[i] = k

\* ------------------------------------------------------------- process_glb
\* What a conversion call can meet: the tool found or not, the input file
\* there or not, the subprocess exiting 0, exiting nonzero or outliving the
\* timeout, and the output file afterwards.  Environments that differ only in
\* what the call never gets to read are one environment.
ConvEnvs ==
  { e \in [ blender : BOOLEAN, input : BOOLEAN, proc : {"ok", "timeout", "nonzero"},
            output : {"missing", "empty", "nonempty"} ] :
      /\ ~e.blender => e.input
      /\ ~(e.blender /\ e.input) => e.proc = "ok"
      /\ ~(e.blender /\ e.input /\ e.proc = "ok") => e.output = "missing" }

NoEnv == [ blender |-> FALSE, input |-> FALSE, proc |-> "none", output |-> "none" ]

\* cmd: the options after "--" on the subprocess's command line.
ConvCmd(glb_path, decimate_ratio, output_fbx_path) ==
  [ input |-> glb_path, output |-> output_fbx_path, decimate |-> decimate_ratio,
    merge_children |-> FALSE ]

NoArgv == [ input |-> <<>>, output |-> <<>>, decimate |-> 0, merge_children |-> FALSE ]

\* process_glb without result.check_returncode().
ProcessGlbNoCheck(e) ==
  IF ~e.blender THEN [ raised |-> "ToolNotFound", spawned |-> FALSE, alive |-> FALSE, fault |-> "tool_missing" ]
  ELSE IF ~e.input THEN [ raised |-> "InputNotFound", spawned |-> FALSE, alive |-> FALSE, fault |-> "input_gone" ]
  ELSE IF e.proc = "timeout" THEN [ raised |-> "TimeoutExpired", spawned |-> TRUE, alive |-> FALSE, fault |-> "conv_timeout" ]
  ELSE [ raised |-> "none", spawned |-> TRUE, alive |-> FALSE, fault |-> "none" ]

\* The body of process_glb under an environment e: what it raises, whether
\* it spawned the subprocess, whether the subprocess is still running after
\* (subprocess.run kills and reaps the child before raising TimeoutExpired).
ProcessGlb(e) ==
  IF ~e.blender THEN [ raised |-> "ToolNotFound", spawned |-> FALSE, alive |-> FALSE, fault |-> "tool_missing" ]
  ELSE IF ~e.input THEN [ raised |-> "InputNotFound", spawned |-> FALSE, alive |-> FALSE, fault |-> "input_gone" ]
  ELSE IF e.proc = "timeout" THEN [ raised |-> "TimeoutExpired", spawned |-> TRUE, alive |-> FALSE, fault |-> "conv_timeout" ]
  ELSE IF e.proc = "nonzero" THEN [ raised |-> "CalledProcessError", spawned |-> TRUE, alive |-> FALSE, fault |-> "conv_nonzero" ]
  ELSE [ raised |-> "none", spawned |-> TRUE, alive |-> FALSE, fault |-> "none" ]

\* ------------------------------------------------------------- Init
\* ------------------------------------------------------------- editor content
\* A folder or asset name is a sequence of parts; the content folder itself is <<>>.
Root == <<>>
MaterialsDir == <<"Materials">>
StagingPrefix == "_temp_import_"
S1 == <<StagingPrefix, "a1">>
S2 == <<StagingPrefix, "b2">>
MaterialClasses == {"MaterialInstanceConstant", "Material", "MaterialInterface"}
MatName == <<"M">>

Asset(dir, name, cls) == [ dir |-> dir, name |-> name, cls |-> cls ]

\* entry.startswith("_temp_import_")
IsStagingName(n) == Len(n) >= 1 /\ n[1] = StagingPrefix

\* What the content folder may hold before the first call: an earlier import
\* of A.glb, a material, and what an interrupted earlier run left behind.
InitIndexes == SUBSET { Asset(Root, <<"A">>, "StaticMesh"),
                        Asset(Root, MatName, "MaterialInstanceConstant"),
                        Asset(S1, <<"A">>, "StaticMesh") }
InitDisks == { {}, { [name |-> S1, kind |-> "dir"] },
               { [name |-> S2, kind |-> "file"] },
               { [name |-> S1, kind |-> "dir"], [name |-> S2, kind |-> "file"] } }

EditorInit ==
  /\ edQueue = <<>> /\ edpc = "idle" /\ edCmd = NoCmd /\ edResp = {}
  /\ index \in InitIndexes
  /\ \E extra \in SUBSET {S1} :
       vdirs = { a.dir : a \in { b \in index : b.dir # Root } } \cup extra
  /\ diskDir \in BOOLEAN
  /\ disk \in InitDisks
  /\ (~diskDir => disk = {})
  /\ edTask = NoTask /\ edCollision = {} /\ edImported = {}

\* ------------------------------------------------------------- the script's scene
\* An object of bpy.data.objects has a type, a name (a sequence of parts),
\* a parent (NoParent is None), the polygon count of its mesh data and the
\* modifiers that were applied to it.  Objects are numbered in the order of
\* their names, the order bpy.data.objects iterates in.
ObjIds == 1..MaxObjs
NoParent == 0
ObjTypes == {"EMPTY", "MESH"}
ObjName(i) == << ToString(i) >>
Obj(type, i, parent) ==
  [ type |-> type, name |-> ObjName(i), parent |-> parent,
    polys |-> IF type = "MESH" THEN 4 * i ELSE 0, applied |-> <<>> ]

RECURSIVE Up(_, _, _)
Up(par, i, n) ==
  IF n = 0 \/ i = NoParent THEN i ELSE Up(par, par[i], n - 1)

\* A node hierarchy has no cycles.
IsForest(par, k) == \A i \in 1..k : Up(par, i, k) = NoParent

\* The scene of k objects with the types ty and the parents par.
SceneOf(ty, par, k) == [ i \in 1..k |-> Obj(ty[i], i, par[i]) ]
EmptyScene == <<>>

\* --decimate, in hundredths; 1.0 is FullRatio.
FullRatio == 100
ScriptRatios == {50, FullRatio, 150}
ScriptArgs == [ merge_children : BOOLEAN, decimate : ScriptRatios ]
\* the parser's defaults
DefaultArgs == [ merge_children |-> FALSE, decimate |-> 50 ]

Min(S) == CHOOSE x \in S : \A y \in S : x <= y

\* obj.children
Children(s, p) == { i \in DOMAIN s : s[i].parent = p }
MeshChildren(s, p) == { c \in Children(s, p) : s[c].type = "MESH" }

\* "Find all EMPTY objects that have MESH children"
EmptyParents(s) ==
  { p \in DOMAIN s : s[p].type = "EMPTY" /\ MeshChildren(s, p) # {} }

\* obj.name = n: a name another object holds is made unique by a suffix.
SetName(s, i, n) ==
  [ s EXCEPT ![i].name =
      IF \E j \in DOMAIN s \ {i} : s[j].name = n THEN n \o <<".001">> ELSE n ]

RECURSIVE SumPolys(_, _)
SumPolys(s, sel) ==
  IF sel = {} THEN 0
  ELSE LET i == Min(sel) IN s[i].polys + SumPolys(s, sel \ {i})

\* bpy.ops.object.delete(): the selected objects go, their children stay
\* and lose their parent.
DeleteObjects(s, sel) ==
  [ i \in DOMAIN s \ sel |->
      IF s[i].parent \in sel THEN [ s[i] EXCEPT !.parent = NoParent ] ELSE s[i] ]

\* bpy.ops.object.join(): the selected meshes become part of the active one.
Join(s, selected, active) ==
  LET joined == [ s EXCEPT ![active].polys = SumPolys(s, selected) ]
  IN  DeleteObjects(joined, selected \ {active})

\* One turn of the loop over empty_parents, the parent named without the
\* renaming that frees its name.
MergeGroupKeepName(s, parent, mesh_children) ==
  LET parent_name == s[parent].name
      cleared == [ i \in DOMAIN s |->
                   IF i \in mesh_children
                   THEN [ s[i] EXCEPT !.parent = NoParent ] ELSE s[i] ]
      first == Min(mesh_children)
  IN  IF Cardinality(mesh_children) = 1
      THEN SetName(cleared, first, parent_name)
      ELSE SetName(Join(cleared, mesh_children, first), first, parent_name)

\* One turn of the loop over empty_parents.
MergeGroup(s, parent, mesh_children) ==
  LET parent_name == s[parent].name
      cleared == [ i \in DOMAIN s |->
                   IF i \in mesh_children
                   THEN [ s[i] EXCEPT !.parent = NoParent ] ELSE s[i] ]
      renamed == SetName(cleared, parent, parent_name \o <<"__to_delete">>)
      first == Min(mesh_children)
  IN  IF Cardinality(mesh_children) = 1
      THEN SetName(renamed, first, parent_name)
      ELSE SetName(Join(renamed, mesh_children, first), first, parent_name)

RECURSIVE MergeLoop(_, _, _)
MergeLoop(s, todo, mesh_children) ==
  IF todo = {} THEN s
  ELSE LET p == Min(todo)
       IN  MergeLoop(MergeGroup(s, p, mesh_children[p]), todo \ {p}, mesh_children)

\* merge_mesh_groups: the groups are collected first, then merged one by one,
\* then the processed parents are deleted, then one pass deletes the EMPTY
\* objects that have no children.
MergeMeshGroups(s) ==
  LET empty_parents == EmptyParents(s)
      mesh_children == [ p \in empty_parents |-> MeshChildren(s, p) ]
      merged == MergeLoop(s, empty_parents, mesh_children)
      processed == { i \in DOMAIN merged :
                       \E p \in empty_parents : merged[i].name = merged[p].name }
      deleted == DeleteObjects(merged, processed)
      childless == { i \in DOMAIN deleted :
                       deleted[i].type = "EMPTY" /\ Children(deleted, i) = {} }
  IN  DeleteObjects(deleted, childless)

\* decimate_meshes with the test ratio > 1.0.
DecimateMeshesAboveOne(s, ratio) ==
  IF ratio > FullRatio THEN s
  ELSE [ i \in DOMAIN s |->
           IF s[i].type = "MESH"
           THEN [ s[i] EXCEPT !.polys = (@ * ratio) \div FullRatio,
                              !.applied = Append(@, "DECIMATE") ]
           ELSE s[i] ]

\* decimate_meshes: a COLLAPSE modifier with the ratio, applied to each mesh.
DecimateMeshes(s, ratio) ==
  IF ratio >= FullRatio THEN s
  ELSE [ i \in DOMAIN s |->
           IF s[i].type = "MESH"
           THEN [ s[i] EXCEPT !.polys = (@ * ratio) \div FullRatio,
                              !.applied = Append(@, "DECIMATE") ]
           ELSE s[i] ]

\* Before the script has run: defaults, nothing loaded.
ScriptInit ==
  /\ spc = "start" /\ args = DefaultArgs
  /\ loaded = EmptyScene /\ scene = EmptyScene

\* ------------------------------------------------------------- find_blender
\* A path is named by where it comes from; an install path also by the
\* version in its directory name, "Blender <major>.<minor>".
Versions == { [major |-> 3, minor |-> 6], [major |-> 4, minor |-> 2],
              [major |-> 10, minor |-> 0] }
NotAsked == [ kind |-> "unasked" ]
None == [ kind |-> "none" ]
EnvPath == [ kind |-> "env" ]
InstallPath(v) == [ kind |-> "install", version |-> v ]
WhichPath == [ kind |-> "which" ]
SteamPath == [ kind |-> "steam" ]

\* The machine: sys.platform, BLENDER_PATH ("unset", "empty" or "set") and
\* whether it names a file, the versions the install pattern matches, whether
\* shutil.which finds blender, whether the Steam path is a file.  What the
\* platform cannot hold is absent.
Hosts ==
  { h \in [ platform : {"win32", "linux"}, env : {"unset", "empty", "set"},
            env_isfile : BOOLEAN, installs : SUBSET Versions,
            which : BOOLEAN, steam : BOOLEAN ] :
      /\ (h.env_isfile => h.env = "set")
      /\ (h.platform # "win32" => h.installs = {} /\ ~h.steam) }
BareHost == [ platform |-> "linux", env |-> "unset", env_isfile |-> FALSE,
              installs |-> {}, which |-> FALSE, steam |-> FALSE ]

\* The characters of the varying part of an install path, in code point order.
CharOrder == << ".", "0", "1", "2", "3", "4", "5", "6", "7", "8", "9", "\\" >>
Code(c) == CHOOSE k \in 1..Len(CharOrder) : CharOrder[k] = c
Digit(n) == CharOrder[n + 2]
Digits(n) == IF n < 10 THEN << Digit(n) >> ELSE << Digit(n \div 10), Digit(n % 10) >>

\* The part of the path string in which two matches of the pattern differ.
PathText(v) == Digits(v.major) \o <<".">> \o Digits(v.minor) \o <<"\\">>

\* a < b for strings
RECURSIVE StrLess(_, _)
StrLess(a, b) ==
  IF b = <<>> THEN FALSE
  ELSE IF a = <<>> THEN TRUE
  ELSE IF Code(Head(a)) # Code(Head(b)) THEN Code(Head(a)) < Code(Head(b))
  ELSE StrLess(Tail(a), Tail(b))

\* sorted(glob.glob(pattern), reverse=True)[0]
FirstOfSortedReverse(installs) ==
  CHOOSE v \in installs :
    \A w \in installs \ {v} : StrLess(PathText(w), PathText(v))

\* find_blender
FindBlender(h) ==
  IF h.env = "set" /\ h.env_isfile THEN EnvPath
  ELSE IF h.platform = "win32" /\ h.installs # {}
       THEN InstallPath(FirstOfSortedReverse(h.installs))
  ELSE IF h.which THEN WhichPath
  ELSE IF h.platform = "win32" /\ h.steam THEN SteamPath
  ELSE None

FindInit == host = BareHost /\ located = NotAsked

\* ------------------------------------------------------------- the window
\* Texts of the file field: empty, two .glb files that exist, and a text that
\* names no .glb file.
NoText == <<>>
ValidGlbs == GlbNames
OtherText == <<"notes", "txt">>
Texts == {NoText} \cup ValidGlbs \cup {OtherText}

\* MainWindow.__init__ and _setup_ui: no worker, Import disabled, Browse enabled.
GuiInit ==
  /\ file_input = NoText /\ import_btn = FALSE /\ browse_btn = TRUE
  /\ progress_bar = FALSE
  /\ worker = 0 /\ worker_thread = 0
  /\ threads = [ i \in 1..MaxJobs |-> [ st |-> "unstarted", glb_path |-> NoText ] ]
  /\ crashed = FALSE

Init ==
  /\ pc = "idle" /\ caller = "none" /\ calls = 0 /\ job = NoJob
  /\ temp_dir = FALSE /\ tempExists = FALSE /\ exc = "none"
  /\ finishedLog = <<>> /\ progressLog = <<>> /\ warned = FALSE
  /\ stages = <<>> /\ failedAt = "none" /\ spawned = 0 /\ faults = {}
  /\ session = "none" /\ nodes = FALSE /\ elapsed = 0 /\ conn = "none"
  /\ sent = FALSE /\ nodeAtCheck = "unread" /\ fbxResult = NoResult
  /\ EditorInit
  /\ imported = {} /\ cleaned = {}
  /\ convEnv = NoEnv /\ argv = NoArgv /\ procAlive = FALSE /\ convResult = "none"
  /\ discovery_timeout = DefaultTimeout
  /\ GuiInit
  /\ ScriptInit
  /\ FindInit

\* The editor has no command left to execute.
EditorQuiet == edpc = "idle" /\ edQueue = <<>>

\* What every new call starts from.
ResetCall ==
  /\ caller' = "none" /\ job' = NoJob
  /\ temp_dir' = FALSE /\ tempExists' = FALSE /\ exc' = "none"
  /\ finishedLog' = <<>> /\ progressLog' = <<>> /\ warned' = FALSE
  /\ stages' = <<>> /\ failedAt' = "none" /\ spawned' = 0 /\ faults' = {}
  /\ session' = "none" /\ nodes' = FALSE /\ elapsed' = 0 /\ conn' = "none"
  /\ sent' = FALSE /\ nodeAtCheck' = "unread" /\ fbxResult' = NoResult
  /\ edResp' = {} /\ edTask' = NoTask /\ edCollision' = {} /\ edImported' = {}
  /\ convEnv' = NoEnv /\ argv' = NoArgv /\ procAlive' = FALSE /\ convResult' = "none"
  /\ discovery_timeout' = DefaultTimeout

\* ------------------------------------------------------------- ImportWorker
\* MainWindow._start_import: a worker is built from the form and its thread started.
StartJob ==
  /\ pc = "idle" /\ calls < MaxCalls
  /\ \E j \in Jobs : job' = j
  /\ caller' = "run" /\ calls' = calls + 1 /\ pc' = "run_validate"
  /\ UNCHANGED <<temp_dir, tempExists, exc, finishedLog, progressLog, warned,
                 stages, failedAt, spawned, faults, fbxVars, edVars>>
  /\ UNCHANGED auxVars

\* RunValidate without the return after reporting the missing input.
RunValidateNoReturn ==
  /\ pc = "run_validate"
  /\ stages' = Append(stages, "validate")
  /\ \E exists \in BOOLEAN :
       IF exists
       THEN /\ pc' = "run_find_blender"
            /\ UNCHANGED <<finishedLog, failedAt, faults>>
       ELSE /\ finishedLog' = Finished(FALSE, "InputNotFound")
            /\ failedAt' = "validate"
            /\ faults' = faults \cup {"input_missing"}
            /\ pc' = "run_find_blender"
  /\ UNCHANGED <<caller, calls, job, temp_dir, tempExists, exc, progressLog,
                 warned, spawned, fbxVars, edVars>>
  /\ UNCHANGED auxVars

\* run: "Validate inputs".
RunValidate ==
  /\ pc = "run_validate"
  /\ stages' = Append(stages, "validate")
  /\ \E exists \in BOOLEAN :
       IF exists
       THEN /\ pc' = "run_find_blender"
            /\ UNCHANGED <<finishedLog, failedAt, faults>>
       ELSE /\ finishedLog' = Finished(FALSE, "InputNotFound")
            /\ failedAt' = "validate"
            /\ faults' = faults \cup {"input_missing"}
            /\ pc' = "run_finally"
  /\ UNCHANGED <<caller, calls, job, temp_dir, tempExists, exc, progressLog,
                 warned, spawned, fbxVars, edVars>>
  /\ UNCHANGED auxVars

\* run: "Check Blender".
RunFindBlender ==
  /\ pc = "run_find_blender"
  /\ stages' = Append(stages, "locate")
  /\ progressLog' = Progress(progressLog, 5)
  /\ \E found \in BOOLEAN :
       IF found
       THEN /\ pc' = "run_output"
            /\ UNCHANGED <<finishedLog, failedAt, faults>>
       ELSE /\ finishedLog' = Finished(FALSE, "ToolNotFound")
            /\ failedAt' = "locate"
            /\ faults' = faults \cup {"tool_missing"}
            /\ pc' = "run_finally"
  /\ UNCHANGED <<caller, calls, job, temp_dir, tempExists, exc, warned,
                 spawned, fbxVars, edVars>>
  /\ UNCHANGED auxVars

\* run: "Determine FBX output location".
RunOutputLocation ==
  /\ pc = "run_output"
  /\ \E ok \in BOOLEAN :
       IF ~ok
       THEN \* os.makedirs / tempfile.mkdtemp raised OSError
            /\ exc' = "OSError" /\ faults' = faults \cup {"output_dir_error"}
            /\ pc' = "run_except"
            /\ UNCHANGED <<temp_dir, tempExists>>
       ELSE /\ IF job.source_folder
               THEN UNCHANGED <<temp_dir, tempExists>>
               ELSE temp_dir' = TRUE /\ tempExists' = TRUE
            /\ pc' = "run_convert"
            /\ UNCHANGED <<exc, faults>>
  /\ UNCHANGED <<caller, calls, job, finishedLog, progressLog, warned, stages,
                 failedAt, spawned, fbxVars, edVars>>
  /\ UNCHANGED auxVars

\* run: "Run Blender conversion", up to "Import into UE5".
RunConvert ==
  /\ pc = "run_convert"
  /\ stages' = Append(stages, "convert")
  /\ \E e \in ConvEnvs :
       /\ IF ~CallBinds(ProcessGlbParams, RunConvertCall)
          THEN /\ exc' = "TypeError" /\ failedAt' = "convert" /\ pc' = "run_except"
               /\ progressLog' = Progress(progressLog, 15)
               /\ UNCHANGED <<finishedLog, spawned, faults, convEnv, argv, procAlive>>
          ELSE LET r == ProcessGlb(e) IN
               /\ convEnv' = e
               /\ spawned' = IF r.spawned THEN spawned + 1 ELSE spawned
               /\ argv' = IF r.spawned
                          THEN ConvCmd(job.glb, job.decimate_ratio, FbxNameOf(job.glb))
                          ELSE argv
               /\ procAlive' = r.alive
               /\ IF r.raised # "none"
                  THEN /\ exc' = r.raised /\ failedAt' = "convert" /\ pc' = "run_except"
                       /\ faults' = faults \cup {r.fault}
                       /\ progressLog' = Progress(progressLog, 15)
                       /\ UNCHANGED finishedLog
                  ELSE IF e.output = "missing"   \* os.path.isfile(fbx_path)
                  THEN /\ finishedLog' = Finished(FALSE, "NoOutput")
                       /\ failedAt' = "convert" /\ pc' = "run_finally"
                       /\ faults' = faults \cup {"no_output"}
                       /\ progressLog' = Progress(Progress(progressLog, 15), 60)
                       /\ UNCHANGED exc
                  ELSE /\ pc' = "fbx_start"
                       /\ progressLog' = Progress(Progress(Progress(progressLog, 15), 60), 70)
                       /\ UNCHANGED <<exc, finishedLog, failedAt, faults>>
  /\ UNCHANGED <<caller, calls, job, temp_dir, tempExists, warned, fbxVars, edVars>>
  /\ UNCHANGED <<histVars, convResult, discVars, guiVars, toolVars>>

\* RunExcept passing over the exception without reporting it.
RunExceptSilent ==
  /\ pc = "run_except"
  /\ exc' = "none"
  /\ pc' = "run_finally"
  /\ UNCHANGED <<caller, calls, job, temp_dir, tempExists, finishedLog,
                 progressLog, warned, stages, failedAt, spawned, faults,
                 fbxVars, edVars>>
  /\ UNCHANGED auxVars

\* RunExcept trying the conversion again instead of reporting the failure.
RunExceptRetry ==
  /\ pc = "run_except"
  /\ exc' = "none"
  /\ pc' = "run_convert"
  /\ UNCHANGED <<caller, calls, job, temp_dir, tempExists, finishedLog,
                 progressLog, warned, stages, failedAt, spawned, faults,
                 fbxVars, edVars>>
  /\ UNCHANGED auxVars

\* run: except Exception as e.
RunExcept ==
  /\ pc = "run_except"
  /\ finishedLog' = Finished(FALSE, exc)
  /\ exc' = "none"
  /\ pc' = "run_finally"
  /\ UNCHANGED <<caller, calls, job, temp_dir, tempExists, progressLog, warned,
                 stages, failedAt, spawned, faults, fbxVars, edVars>>
  /\ UNCHANGED auxVars

\* The clean-up written at the end of the try block: skipped by every early
\* return and by every exception.
RunFinallyAfterSuccessOnly ==
  /\ pc = "run_finally"
  /\ IF temp_dir /\ tempExists /\ finishedLog[Len(finishedLog)].success
     THEN \E removed \in BOOLEAN :
            /\ tempExists' = ~removed
            /\ faults' = IF removed THEN faults ELSE faults \cup {"cleanup_error"}
     ELSE UNCHANGED <<tempExists, faults>>
  /\ pc' = "done"
  /\ UNCHANGED <<caller, calls, job, temp_dir, exc, finishedLog, progressLog,
                 warned, stages, failedAt, spawned, fbxVars, edVars>>
  /\ UNCHANGED auxVars

\* run: finally, "Clean up temp files"; an OSError of shutil.rmtree is passed over.
RunFinally ==
  /\ pc = "run_finally"
  /\ IF temp_dir /\ tempExists
     THEN \E removed \in BOOLEAN :
            /\ tempExists' = ~removed
            /\ faults' = IF removed THEN faults ELSE faults \cup {"cleanup_error"}
     ELSE UNCHANGED <<tempExists, faults>>
  /\ pc' = "done"
  /\ UNCHANGED <<caller, calls, job, temp_dir, exc, finishedLog, progressLog,
                 warned, stages, failedAt, spawned, fbxVars, edVars>>
  /\ UNCHANGED auxVars

\* ------------------------------------------------------------- process_glb called directly
\* A direct call of process_glb(glb_path, decimate_ratio, output_fbx_path).
CallProcessGlb ==
  /\ pc = "idle" /\ calls < MaxCalls
  /\ \E j \in ConvJobs : job' = j
  /\ caller' = "conv" /\ calls' = calls + 1 /\ pc' = "conv_run"
  /\ UNCHANGED <<temp_dir, tempExists, exc, finishedLog, progressLog, warned,
                 stages, failedAt, spawned, faults, fbxVars, edVars>>
  /\ UNCHANGED auxVars

\* The body of process_glb, to its return or raise.
ConvRun ==
  /\ pc = "conv_run"
  /\ stages' = Append(stages, "convert")
  /\ \E e \in ConvEnvs :
       LET r == ProcessGlb(e) IN
       /\ convEnv' = e
       /\ spawned' = IF r.spawned THEN spawned + 1 ELSE spawned
       /\ argv' = IF r.spawned
                  THEN ConvCmd(job.glb, job.decimate_ratio, FbxNameOf(job.glb))
                  ELSE argv
       /\ procAlive' = r.alive
       /\ convResult' = IF r.raised # "none" THEN r.raised ELSE "returned"
       /\ failedAt' = IF r.raised # "none" THEN "convert" ELSE failedAt
       /\ faults' = IF r.raised # "none" THEN faults \cup {r.fault} ELSE faults
  /\ pc' = "done"
  /\ UNCHANGED <<caller, calls, job, temp_dir, tempExists, exc, finishedLog,
                 progressLog, warned, fbxVars, edVars>>
  /\ UNCHANGED <<histVars, discVars, guiVars, toolVars>>

\* ------------------------------------------------------------- import_fbx
\* A direct call of import_fbx(fbx_path, ..., discovery_timeout = t, ...).
CallImportFbx ==
  /\ pc = "idle" /\ calls < MaxCalls
  /\ \E j \in ApiJobs : job' = j
  /\ \E t \in Timeouts : discovery_timeout' = t
  /\ caller' = "api" /\ calls' = calls + 1 /\ pc' = "fbx_start"
  /\ UNCHANGED <<temp_dir, tempExists, exc, finishedLog, progressLog, warned,
                 stages, failedAt, spawned, faults, fbxVars, edVars>>
  /\ UNCHANGED <<histVars, convVars, guiVars, toolVars>>

\* _build_import_command: the payload, from the path and the flags.
BuildImportCommand(fbx, import_materials, complex_collision, combine_meshes) ==
  [ asset |-> Stem(fbx), import_materials |-> import_materials,
    complex_collision |-> complex_collision, combine_meshes |-> combine_meshes ]

\* The socket error of a send that fails (the remote_execution module's sendall).
SendFailureRaises == "OSError"

\* What remote.run_command(command, raise_on_failure=True) raises, by what
\* happened on the channel: the docstring's "RuntimeError: If the import
\* command fails", and the RuntimeError of a connection dropped while the
\* response is awaited.
RunCommandRaises(outcome) ==
  CASE outcome = "send_failed"     -> SendFailureRaises
    [] outcome = "lost_after_send" -> "RuntimeError"
    [] outcome = "cmd_failed"      -> "RuntimeError"
    [] OTHER                       -> "none"

\* The inner handler written as except Exception.
ImportFbxCatchesAll(cls) == cls \in {"RuntimeError", "OSError"}

\* The inner handler of import_fbx: except RuntimeError.
ImportFbxCatches(cls) == cls = "RuntimeError"

\* The dict the handler returns: success with the warning line as output.
WarningResult == [ kind |-> "none", success |-> TRUE, warning |-> TRUE, exc |-> "none" ]

\* remote = RemoteExecution(config); remote.start()
FbxStart ==
  /\ pc = "fbx_start"
  /\ stages' = Append(stages, "discover")
  /\ \E ok \in BOOLEAN :
       IF ok
       THEN /\ session' = "started" /\ pc' = "fbx_poll"
            /\ UNCHANGED <<exc, failedAt, faults>>
       ELSE /\ exc' = "StartError" /\ failedAt' = "discover"
            /\ faults' = faults \cup {"start_failed"}
            /\ pc' = "fbx_exit"
            /\ UNCHANGED session
  /\ UNCHANGED <<caller, calls, job, temp_dir, tempExists, finishedLog,
                 progressLog, warned, spawned, nodes, elapsed, conn, sent,
                 nodeAtCheck, fbxResult, edVars>>
  /\ UNCHANGED auxVars

\* The discovery listener learns of an editor node (any time the session runs).
NodeAnnounce ==
  /\ session = "started" /\ ~nodes
  /\ pc \in {"fbx_poll", "fbx_check"}
  /\ nodes' = TRUE
  /\ UNCHANGED <<jobVars, session, elapsed, conn, sent, nodeAtCheck, fbxResult, edVars>>
  /\ UNCHANGED auxVars

\* FbxPoll sleeping before its first look at the clock (a do-while loop).
FbxPollSleepFirst ==
  /\ pc = "fbx_poll"
  /\ IF ~nodes /\ (elapsed = 0 \/ elapsed * PollTicks < discovery_timeout)
     THEN elapsed' = elapsed + 1 /\ pc' = pc
     ELSE elapsed' = elapsed /\ pc' = "fbx_check"
  /\ UNCHANGED <<caller, calls, job, temp_dir, tempExists, exc, finishedLog,
                 progressLog, warned, stages, failedAt, spawned, faults,
                 session, nodes, conn, sent, nodeAtCheck, fbxResult, edVars>>
  /\ UNCHANGED auxVars

\* deadline = time.time() + discovery_timeout
\* while not remote.remote_nodes and time.time() < deadline: time.sleep(0.5)
FbxPoll ==
  /\ pc = "fbx_poll"
  /\ IF ~nodes /\ elapsed * PollTicks < discovery_timeout
     THEN elapsed' = elapsed + 1 /\ pc' = pc
     ELSE elapsed' = elapsed /\ pc' = "fbx_check"
  /\ UNCHANGED <<caller, calls, job, temp_dir, tempExists, exc, finishedLog,
                 progressLog, warned, stages, failedAt, spawned, faults,
                 session, nodes, conn, sent, nodeAtCheck, fbxResult, edVars>>
  /\ UNCHANGED auxVars

\* FbxCheckNodes without the raise: it goes on to the node list either way.
FbxCheckNodesNoRaise ==
  /\ pc = "fbx_check"
  /\ nodeAtCheck' = IF nodes THEN "known" ELSE "none"
  /\ pc' = "fbx_open"
  /\ UNCHANGED <<caller, calls, job, temp_dir, tempExists, exc, failedAt, faults,
                 finishedLog, progressLog, warned, stages, spawned, session,
                 nodes, elapsed, conn, sent, fbxResult, edVars>>
  /\ UNCHANGED auxVars

\* if not remote.remote_nodes: raise ConnectionError(...)
FbxCheckNodes ==
  /\ pc = "fbx_check"
  /\ IF nodes
     THEN /\ nodeAtCheck' = "known" /\ pc' = "fbx_open"
          \* the loop's deadline and its count of sleeps are not read again
          /\ discovery_timeout' = DefaultTimeout /\ elapsed' = 0
          /\ UNCHANGED <<exc, failedAt, faults>>
     ELSE /\ nodeAtCheck' = "none"
          /\ exc' = "DiscoveryTimeout" /\ failedAt' = "discover"
          /\ faults' = faults \cup {"no_node"}
          /\ pc' = "fbx_finally"
          /\ UNCHANGED <<discovery_timeout, elapsed>>
  /\ UNCHANGED <<caller, calls, job, temp_dir, tempExists, finishedLog,
                 progressLog, warned, stages, spawned, session, nodes,
                 conn, sent, fbxResult, edVars>>
  /\ UNCHANGED <<histVars, convVars, guiVars, toolVars>>

\* remote.open_command_connection(node_id)
FbxOpenConnection ==
  /\ pc = "fbx_open"
  /\ stages' = Append(stages, "open")
  /\ \E ok \in BOOLEAN :
       IF ok
       THEN /\ conn' = "open" /\ pc' = "fbx_send"
            /\ UNCHANGED <<exc, failedAt, faults>>
       ELSE /\ exc' = "ChannelError" /\ failedAt' = "open"
            /\ faults' = faults \cup {"open_failed"}
            /\ pc' = "fbx_finally"
            /\ UNCHANGED conn
  /\ UNCHANGED <<caller, calls, job, temp_dir, tempExists, finishedLog,
                 progressLog, warned, spawned, session, nodes, elapsed, sent,
                 nodeAtCheck, fbxResult, edVars>>
  /\ UNCHANGED auxVars

\* The outcome of the try around run_command: an exception the handler
\* catches becomes the warning result, any other propagates.
FbxRaiseInTry(cls, stage, fault) ==
  /\ faults' = faults \cup {fault}
  /\ IF ImportFbxCatches(cls)
     THEN /\ fbxResult' = WarningResult
          /\ UNCHANGED <<exc, failedAt>>
     ELSE /\ exc' = cls /\ failedAt' = stage
          /\ UNCHANGED fbxResult
  /\ pc' = "fbx_finally"

\* command = _build_import_command(...); run_command transmits it.
FbxSend ==
  /\ pc = "fbx_send"
  /\ stages' = Append(stages, "send")
  /\ \E ok \in BOOLEAN :
       IF ok
       THEN /\ sent' = TRUE
            /\ edQueue' = Append(edQueue,
                 [ id |-> calls ] @@
                 BuildImportCommand(FbxNameOf(job.glb), job.import_materials,
                                    job.complex_collision, job.merge_meshes))
            /\ pc' = "fbx_await"
            /\ UNCHANGED <<exc, failedAt, faults, fbxResult>>
       ELSE /\ FbxRaiseInTry(RunCommandRaises("send_failed"), "send", "send_failed")
            /\ UNCHANGED <<sent, edQueue>>
  /\ UNCHANGED <<caller, calls, job, temp_dir, tempExists, finishedLog,
                 progressLog, warned, spawned, session, nodes, elapsed, conn,
                 nodeAtCheck, edpc, edCmd, edResp, index, vdirs, diskDir,
                 disk, edTask, edCollision, edImported>>
  /\ UNCHANGED auxVars

\* run_command blocks for the response; return result.
FbxAwait ==
  /\ pc = "fbx_await"
  /\ \/ \E r \in edResp :
          /\ r.id = calls
          /\ IF r.success
             THEN /\ fbxResult' = [ kind |-> "none", success |-> TRUE,
                                    warning |-> FALSE, exc |-> "none" ]
                  /\ pc' = "fbx_finally"
                  /\ UNCHANGED <<exc, failedAt, faults>>
             ELSE FbxRaiseInTry(RunCommandRaises("cmd_failed"), "send", "cmd_failed")
     \/ FbxRaiseInTry(RunCommandRaises("lost_after_send"), "send", "lost_after_send")
  /\ UNCHANGED <<caller, calls, job, temp_dir, tempExists, finishedLog,
                 progressLog, warned, stages, spawned, session, nodes,
                 elapsed, conn, sent, nodeAtCheck, edVars>>
  /\ UNCHANGED auxVars

\* remote.stop() at the end of the try block instead of in a finally clause.
FbxFinallyNoStopOnError ==
  /\ pc = "fbx_finally"
  /\ session' = IF exc = "none" THEN "stopped" ELSE session
  /\ conn' = IF conn = "open" /\ exc = "none" THEN "closed" ELSE conn
  /\ pc' = "fbx_exit"
  /\ UNCHANGED <<caller, calls, job, temp_dir, tempExists, exc, finishedLog,
                 progressLog, warned, stages, failedAt, spawned, faults,
                 nodes, elapsed, sent, nodeAtCheck, fbxResult, edVars>>
  /\ UNCHANGED auxVars

\* finally: remote.stop()
FbxFinally ==
  /\ pc = "fbx_finally"
  /\ session' = "stopped"
  /\ conn' = IF conn = "open" THEN "closed" ELSE conn
  /\ pc' = "fbx_exit"
  /\ UNCHANGED <<caller, calls, job, temp_dir, tempExists, exc, finishedLog,
                 progressLog, warned, stages, failedAt, spawned, faults,
                 nodes, elapsed, sent, nodeAtCheck, fbxResult, edVars>>
  /\ UNCHANGED auxVars

\* import_fbx returns or raises to its caller; in run the rest of the try
\* block follows a return (progress 95, the output lines, progress 100,
\* finished(True)), the except clause follows a raise.
FbxExit ==
  /\ pc = "fbx_exit"
  /\ IF exc # "none"
     THEN /\ fbxResult' = [ kind |-> "raised", success |-> FALSE,
                            warning |-> FALSE, exc |-> exc ]
          /\ IF caller = "run"
             THEN pc' = "run_except" /\ UNCHANGED exc
             ELSE pc' = "done" /\ exc' = "none"
          /\ UNCHANGED <<finishedLog, progressLog, warned>>
     ELSE /\ fbxResult' = [ fbxResult EXCEPT !.kind = "returned" ]
          /\ UNCHANGED exc
          /\ IF caller = "run"
             THEN /\ progressLog' = Progress(Progress(progressLog, 95), 100)
                  /\ warned' = fbxResult.warning
                  /\ finishedLog' = Finished(TRUE, "Imported")
                  /\ pc' = "run_finally"
             ELSE /\ pc' = "done"
                  /\ UNCHANGED <<finishedLog, progressLog, warned>>
  /\ UNCHANGED <<caller, calls, job, temp_dir, tempExists, stages, failedAt,
                 spawned, faults, session, nodes, elapsed, conn, sent,
                 nodeAtCheck, edVars>>
  /\ UNCHANGED auxVars

\* ------------------------------------------------------------- do_import (in the editor)
Respond(ok) == edResp \cup { [ id |-> edCmd.id, success |-> ok ] }

\* The editor takes the next received command and starts do_import.
EdStart ==
  /\ edpc = "idle" /\ edQueue # <<>>
  /\ edCmd' = Head(edQueue) /\ edQueue' = Tail(edQueue)
  /\ edpc' = "sweep"
  /\ UNCHANGED <<jobVars, fbxVars, edResp, index, vdirs, diskDir, disk,
                 edTask, edCollision, edImported>>
  /\ UNCHANGED auxVars

\* The sweep's folders without the os.path.isdir(temp_disk) test.
SweepTargetsAnyEntry ==
  IF diskDir
  THEN { d.name : d \in { e \in disk : IsStagingName(e.name) } }
  ELSE {}

\* The folders the sweep removes: the staging-named directories that
\* os.listdir(imports_disk) shows.
SweepTargets ==
  IF diskDir
  THEN { d.name : d \in { e \in disk : IsStagingName(e.name) /\ e.kind = "dir" } }
  ELSE {}

\* "Clean up any leftover temp folders from previous runs".
EdSweep ==
  /\ edpc = "sweep"
  /\ index' = { a \in index : a.dir \notin SweepTargets }
  /\ vdirs' = vdirs \ SweepTargets
  /\ \E rmOk \in BOOLEAN :
       IF rmOk \/ SweepTargets = {}
       THEN /\ disk' = { d \in disk : d.name \notin SweepTargets }
            /\ cleaned' = SweepTargets
            /\ edpc' = "import"
            /\ UNCHANGED <<edResp, edCmd>>
       ELSE \* shutil.rmtree raised: the script ends, the command failed
            /\ edResp' = Respond(FALSE)
            /\ edpc' = "idle" /\ edCmd' = NoCmd
            /\ UNCHANGED <<disk, cleaned>>
  /\ UNCHANGED <<jobVars, fbxVars, edQueue, diskDir, edTask, edCollision,
                 edImported>>
  /\ UNCHANGED <<imported, convVars, discVars, guiVars, toolVars>>

\* The existence check looking for the name in any folder.
DoesAssetExistAnywhere(idx, dir, name) == \E a \in idx : a.name = name

\* unreal.EditorAssetLibrary.does_asset_exist(final_path)
DoesAssetExist(idx, dir, name) == \E a \in idx : a.dir = dir /\ a.name = name

\* The branch taken: if asset_exists: REIMPORT else: FRESH IMPORT.
ImportBranch(idx, name) ==
  IF DoesAssetExist(idx, Root, name) THEN "reimport" ELSE "fresh"

\* The task of either branch built without replace_existing.
ImportTaskNoReplace(branch, name) ==
  [ branch |-> branch, destination_path |-> Root, destination_name |-> name,
    replace_existing |-> FALSE ]

\* The AssetImportTask each branch builds.
ImportTask(branch, name) ==
  [ branch |-> branch, destination_path |-> Root, destination_name |-> name,
    replace_existing |-> TRUE ]

\* The name the host gives the imported mesh: destination_name, with a
\* numeric suffix appended (a further part of the name) when an asset is at
\* that path already and the task does not replace it.
HostAssetName(idx, task) ==
  IF ~task.replace_existing
     /\ DoesAssetExist(idx, task.destination_path, task.destination_name)
  THEN task.destination_name \o <<"1">>
  ELSE task.destination_name

\* The host executing a task that reports imported objects: the mesh is at
\* destination_path under that name, replacing what was there, with the
\* materials beside it when they are imported.
HostImport(idx, task, mats) ==
  LET made == { Asset(task.destination_path, HostAssetName(idx, task), "StaticMesh") }
                \cup { Asset(task.destination_path, m, "Material") : m \in mats }
  IN { a \in idx : ~\E n \in made : n.dir = a.dir /\ n.name = a.name } \cup made

\* asset_exists ... import_asset_tasks([task]) ... imported_object_paths
EdImport ==
  /\ edpc = "import"
  /\ LET branch == ImportBranch(index, edCmd.asset)
         task   == ImportTask(branch, edCmd.asset)
     IN /\ edTask' = task @@ [ indexBefore |-> index, vdirsBefore |-> vdirs,
                                 diskBefore |-> disk ]
        /\ \E reported \in BOOLEAN :
           \E mats \in (IF edCmd.import_materials THEN SUBSET {MatName} ELSE {{}}) :
             IF reported
             THEN /\ index' = HostImport(index, task, mats)
                  /\ vdirs' = vdirs \cup ({task.destination_path} \ {Root})
                  /\ disk' = IF task.destination_path = Root THEN disk
                             ELSE disk \cup { [name |-> task.destination_path, kind |-> "dir"] }
                  /\ diskDir' = TRUE
                  /\ edImported' = { Asset(task.destination_path, HostAssetName(index, task), "StaticMesh") }
                  /\ edpc' = "post"
                  /\ UNCHANGED <<edResp, edCmd>>
             ELSE /\ UNCHANGED <<index, vdirs, disk, diskDir, edImported>>
                  /\ IF branch = "fresh"
                     THEN \* "Import completed but no assets were reported": return
                          /\ edResp' = Respond(TRUE)
                          /\ edpc' = "idle" /\ edCmd' = NoCmd
                     ELSE /\ edpc' = "post"
                          /\ UNCHANGED <<edResp, edCmd>>
  /\ UNCHANGED <<jobVars, fbxVars, edQueue, edCollision>>
  /\ UNCHANGED auxVars

\* Materials directly under the content folder.
RootMaterials(idx) == { a \in idx : a.dir = Root /\ a.cls \in MaterialClasses }

\* The relocation without the delete_asset(new_path): rename_asset does not
\* overwrite, so a material whose new path is taken stays where it is.
MoveMaterialsNoDelete(idx) ==
  LET ms == { m \in RootMaterials(idx) :
                ~\E a \in idx : a.dir = MaterialsDir /\ a.name = m.name }
  IN { a \in idx : a \notin ms } \cup { Asset(MaterialsDir, m.name, m.cls) : m \in ms }

\* "Move materials to a Materials subfolder": delete what is at the new path, rename.
MoveMaterials(idx) ==
  LET ms == RootMaterials(idx)
  IN { a \in idx : a \notin ms /\ ~(a.dir = MaterialsDir /\ \E m \in ms : m.name = a.name) }
     \cup { Asset(MaterialsDir, m.name, m.cls) : m \in ms }

\* The collision setting and the material relocation.
EdPost ==
  /\ edpc = "post"
  /\ edCollision' = IF edCmd.complex_collision
                    THEN edCollision \cup { a.name : a \in edImported \cap index }
                    ELSE edCollision
  /\ IF edCmd.import_materials
     THEN /\ vdirs' = vdirs \cup {MaterialsDir}
          /\ index' = MoveMaterials(index)
     ELSE UNCHANGED <<index, vdirs>>
  /\ edResp' = Respond(TRUE)
  /\ edpc' = "idle" /\ edCmd' = NoCmd
  /\ UNCHANGED <<jobVars, fbxVars, edQueue, diskDir, disk, edTask, edImported>>
  /\ UNCHANGED auxVars

\* A host call raised inside do_import: the command's response is a failure.
EdFail ==
  /\ edpc \in {"import", "post"}
  /\ edResp' = Respond(FALSE)
  /\ edpc' = "idle" /\ edCmd' = NoCmd
  /\ UNCHANGED <<jobVars, fbxVars, edQueue, index, vdirs, diskDir, disk,
                 edTask, edCollision, edImported>>
  /\ UNCHANGED auxVars

\* ------------------------------------------------------------- between calls
\* The terminal outcome has been handled (_on_import_finished drops the worker
\* and its thread; a direct caller has its result).  Calls come one at a time:
\* the next one starts when the editor has finished this call's command.
CallOver ==
  /\ pc = "done"
  /\ EditorQuiet
  /\ pc' = "idle"
  /\ ResetCall
  /\ imported' = imported \cup { a.name : a \in edImported }
  /\ cleaned' = {}
  /\ UNCHANGED <<guiVars, toolVars>>
  /\ UNCHANGED <<calls, edQueue, edpc, edCmd, index, vdirs, diskDir, disk>>

\* ------------------------------------------------------------- specification
Next ==
  \/ CallOver
  \/ StartJob \/ RunValidate \/ RunFindBlender \/ RunOutputLocation
  \/ RunConvert \/ RunExcept \/ RunFinally
  \/ CallProcessGlb \/ ConvRun
  \/ CallImportFbx \/ FbxStart \/ NodeAnnounce \/ FbxPoll \/ FbxCheckNodes
  \/ FbxOpenConnection \/ FbxSend \/ FbxAwait \/ FbxFinally \/ FbxExit
  \/ EdStart \/ EdSweep \/ EdImport \/ EdPost \/ EdFail

Spec == Init /\ [][Next]_vars

\* ------------------------------------------------------------- MainWindow
\* The window with its worker threads.  A worker's run is one step here: what
\* it does in between is the subject of the specification above.
\* A worker thread is "unstarted", "running" (run has not returned),
\* "signalled" ('finished' emitted, the slot not yet run) or "handled"; its
\* glb_path is the text the file field had when it was started.
Unhandled == { i \in 1..MaxJobs : threads[i].st \in {"running", "signalled"} }

\* _on_file_changed(text)
OnFileChanged(text) ==
  import_btn' = (text # NoText /\ text \in ValidGlbs)

\* file_input.setText(text): textChanged is emitted when the text differs.
SetText(text) ==
  /\ file_input' = text
  /\ IF text # file_input THEN OnFileChanged(text) ELSE UNCHANGED import_btn

\* The user types in the file field.
GuiEditFile ==
  /\ ~crashed
  /\ \E t \in Texts \ {file_input} : SetText(t)
  /\ UNCHANGED <<browse_btn, progress_bar, worker, worker_thread, threads, crashed>>
  /\ UNCHANGED mainVars

\* dropEvent: the first dropped path that ends with .glb goes to the file field.
GuiDrop ==
  /\ ~crashed
  /\ \E t \in ValidGlbs : SetText(t)
  /\ UNCHANGED <<browse_btn, progress_bar, worker, worker_thread, threads, crashed>>
  /\ UNCHANGED mainVars

\* _browse_file: a chosen path goes to the file field (all files can be chosen).
GuiBrowse ==
  /\ ~crashed /\ browse_btn
  /\ \E t \in Texts \ {NoText} : SetText(t)
  /\ UNCHANGED <<browse_btn, progress_bar, worker, worker_thread, threads, crashed>>
  /\ UNCHANGED mainVars

\* _start_import, the slot of the Import button's clicked signal.  The QThread
\* that _worker_thread named loses its last reference; destroying a QThread
\* whose thread still runs aborts the process, or does not when the object
\* happens to be kept alive.
GuiStartImport ==
  /\ ~crashed /\ import_btn
  /\ \E i \in 1..MaxJobs :
       /\ threads[i].st = "unstarted"
       /\ \A k \in 1..(i - 1) : threads[k].st # "unstarted"
       /\ import_btn' = FALSE /\ browse_btn' = FALSE /\ progress_bar' = TRUE
       /\ worker' = i /\ worker_thread' = i
       /\ threads' = [ threads EXCEPT ![i] = [ st |-> "running", glb_path |-> file_input ] ]
       /\ IF worker_thread # 0 /\ worker_thread \in Unhandled
          THEN crashed' \in BOOLEAN
          ELSE UNCHANGED crashed
  /\ UNCHANGED file_input
  /\ UNCHANGED mainVars

\* A worker's run returns, having emitted 'finished' once.
WorkerRunEnds ==
  /\ ~crashed
  /\ \E i \in 1..MaxJobs :
       /\ threads[i].st = "running"
       /\ threads' = [ threads EXCEPT ![i].st = "signalled" ]
  /\ UNCHANGED <<file_input, import_btn, browse_btn, progress_bar, worker,
                 worker_thread, crashed>>
  /\ UNCHANGED mainVars

\* _on_import_finished, the slot of a worker's 'finished' signal.  quit() and
\* wait() act on the thread _worker_thread names now; wait() returns when
\* that thread's run has returned.
GuiOnImportFinished ==
  /\ ~crashed
  /\ \E i \in 1..MaxJobs :
       /\ threads[i].st = "signalled"
       /\ worker_thread # 0 => threads[worker_thread].st # "running"
       /\ threads' = [ threads EXCEPT ![i].st = "handled" ]
  /\ import_btn' = (file_input # NoText)
  /\ browse_btn' = TRUE /\ progress_bar' = FALSE
  /\ worker' = 0 /\ worker_thread' = 0
  /\ UNCHANGED <<file_input, crashed>>
  /\ UNCHANGED mainVars

\* The window starts with nothing running and an empty content folder.
InitGui ==
  /\ Init
  /\ index = {} /\ vdirs = {} /\ diskDir = FALSE /\ disk = {}

NextGui ==
  \/ GuiEditFile \/ GuiDrop \/ GuiBrowse
  \/ GuiStartImport \/ WorkerRunEnds \/ GuiOnImportFinished

SpecGui == InitGui /\ [][NextGui]_vars

\* The window with its scheduling: a started worker thread gets to run until
\* run returns, and the event loop delivers a queued 'finished' signal to its
\* slot.  What the user does is not scheduled.
SpecGuiFair ==
  SpecGui /\ WF_vars(WorkerRunEnds) /\ WF_vars(GuiOnImportFinished)

\* ------------------------------------------------------------- blender_process.py
notScriptVars == <<jobVars, fbxVars, edVars, histVars, convVars, discVars,
                   guiVars, findVars>>

\* main: parse_args and clean_scene.
ScriptStart ==
  /\ spc = "start"
  /\ \E a \in ScriptArgs : args' = a
  /\ scene' = EmptyScene
  /\ spc' = "import"
  /\ UNCHANGED loaded
  /\ UNCHANGED notScriptVars

\* main: import_glb(args.input).  The file holds any node tree of at most
\* MaxObjs objects.
ScriptImportGlb ==
  /\ spc = "import"
  /\ \E k \in 0..MaxObjs : \E ty \in [1..k -> ObjTypes] : \E par \in [1..k -> 0..k] :
       /\ IsForest(par, k)
       /\ loaded' = SceneOf(ty, par, k)
       /\ scene' = SceneOf(ty, par, k)
  /\ spc' = IF args.merge_children THEN "merge" ELSE "decimate"
  /\ UNCHANGED args
  /\ UNCHANGED notScriptVars

\* main: merge_mesh_groups().
ScriptMerge ==
  /\ spc = "merge"
  /\ scene' = MergeMeshGroups(scene)
  /\ spc' = "decimate"
  /\ UNCHANGED <<args, loaded>>
  /\ UNCHANGED notScriptVars

\* main: decimate_meshes(args.decimate).
ScriptDecimate ==
  /\ spc = "decimate"
  /\ scene' = DecimateMeshes(scene, args.decimate)
  /\ spc' = "export"
  /\ UNCHANGED <<args, loaded>>
  /\ UNCHANGED notScriptVars

\* main: apply_transforms(), export_fbx(args.output), "Done".
ScriptExport ==
  /\ spc = "export"
  /\ spc' = "done"
  /\ UNCHANGED <<args, loaded, scene>>
  /\ UNCHANGED notScriptVars

\* The script runs on its own, with an empty content folder beside it.
InitScript ==
  /\ Init
  /\ index = {} /\ vdirs = {} /\ diskDir = FALSE /\ disk = {}

NextScript ==
  \/ ScriptStart \/ ScriptImportGlb \/ ScriptMerge \/ ScriptDecimate
  \/ ScriptExport

SpecScript == InitScript /\ [][NextScript]_vars

\* ------------------------------------------------------------- find_blender called
notFindVars == <<jobVars, fbxVars, edVars, histVars, convVars, discVars,
                 guiVars, scriptVars>>

\* Between two calls the machine changes: Blender is installed or removed,
\* BLENDER_PATH is set or cleared.
HostChanges ==
  /\ \E h \in Hosts : host' = h
  /\ located' = NotAsked
  /\ UNCHANGED notFindVars

\* find_blender()
CallFindBlender ==
  /\ located = NotAsked
  /\ located' = FindBlender(host)
  /\ UNCHANGED host
  /\ UNCHANGED notFindVars

InitFind ==
  /\ Init
  /\ index = {} /\ vdirs = {} /\ diskDir = FALSE /\ disk = {}

NextFind == HostChanges \/ CallFindBlender

SpecFind == InitFind /\ [][NextFind]_vars

\* ------------------------------------------------------------- outcomes
JobFinished == caller = "run" /\ pc = "done"
Succeeded == Len(finishedLog) = 1 /\ finishedLog[1].success
Failed    == Len(finishedLog) = 1 /\ ~finishedLog[1].success
FbxEnded  == fbxResult.kind # "none"

\* ------------------------------------------------------------- C1
\* C1: in import_fbx a transport failure after the command was transmitted
\* gives a returned result with success = true and the warning line, and a job
\* that gets it ends Succeeded; a failure opening the command connection or
\* sending the command leaves import_fbx as an exception, and a job that gets
\* it ends Failed.
C1_DropTolerance ==
  /\ "lost_after_send" \in faults =>
       /\ sent
       /\ FbxEnded => fbxResult.kind = "returned" /\ fbxResult.success /\ fbxResult.warning
       /\ JobFinished => Succeeded /\ warned
  /\ faults \cap {"open_failed", "send_failed"} # {} =>
       /\ ~sent
       /\ FbxEnded => fbxResult.kind = "raised"
       /\ JobFinished => Failed

C1_Witness ==
  /\ pc = "done" /\ "lost_after_send" \in faults /\ sent
  /\ fbxResult.kind = "returned" /\ fbxResult.warning

\* ------------------------------------------------------------- C2
\* C2 (as claimed): a command the editor answered with success = false ends
\* import_fbx with an error and the job Failed, and the warning result is
\* returned only after a connection lost after the send.
C2_CommandFailedIsFailed ==
  /\ "cmd_failed" \in faults =>
       /\ FbxEnded => fbxResult.kind = "raised"
       /\ JobFinished => Failed
  /\ (FbxEnded /\ fbxResult.warning) => "lost_after_send" \in faults

\* ------------------------------------------------------------- C3
\* C3: a run of ImportWorker.run emits 'finished' at most once while it runs
\* and exactly once by the time it has ended, so the outcome is Succeeded or
\* Failed and not both.
C3_FinishedExactlyOnce ==
  caller = "run" =>
    /\ Len(finishedLog) <= 1
    /\ pc \in {"run_finally", "done"} => Len(finishedLog) = 1
    /\ pc = "done" => (Succeeded /\ ~Failed) \/ (Failed /\ ~Succeeded)

C3_Witness ==
  /\ JobFinished /\ Failed /\ finishedLog[1].message = "TypeError"

\* ------------------------------------------------------------- C4
\* C4 (as claimed): a job in which nothing around it fails (the input exists,
\* the tool is located, the conversion and the editor do their part) sends
\* the command and ends Succeeded, whatever its flags.
C4_HealthyJobSucceeds ==
  (JobFinished /\ faults = {}) => (Succeeded /\ sent)

\* ------------------------------------------------------------- C5
StageOrder == <<"validate", "locate", "convert", "discover", "open", "send">>
ApiStageOrder == <<"discover", "open", "send">>
IsPrefix(s, t) == Len(s) <= Len(t) /\ \A i \in 1..Len(s) : s[i] = t[i]

\* C5: the stages a call has started are a prefix of the fixed sequence (so
\* none is started twice and none before the ones ahead of it), and once a
\* stage has failed it is the last one started.
C5_StagesFormPrefix ==
  /\ caller = "run" => IsPrefix(stages, StageOrder)
  /\ caller = "api" => IsPrefix(stages, ApiStageOrder)
  /\ caller = "conv" => IsPrefix(stages, <<"convert">>)
  /\ failedAt # "none" => stages # <<>> /\ stages[Len(stages)] = failedAt

C5_Witness ==
  /\ JobFinished /\ failedAt = "convert"
  /\ stages = <<"validate", "locate", "convert">>

\* ------------------------------------------------------------- C6
\* C6: a job whose input file is missing at the first check ends Failed with
\* the input-not-found message, having spawned no subprocess, made no temp
\* directory, started no discovery and sent no command.
C6_MissingInputStopsJob ==
  (caller = "run" /\ "input_missing" \in faults) =>
    /\ spawned = 0 /\ ~temp_dir /\ ~tempExists
    /\ session = "none" /\ ~sent /\ stages = <<"validate">>
    /\ finishedLog = <<[success |-> FALSE, message |-> "InputNotFound"]>>
    /\ pc \in {"run_finally", "done"}

C6_Witness == JobFinished /\ "input_missing" \in faults /\ Failed

\* ------------------------------------------------------------- C7
\* C7: when the check after the discovery loop finds no node, the whole
\* discovery window has elapsed, import_fbx ends with the discovery-timeout
\* error, a job that gets it ends Failed, and no command connection is
\* opened and no command sent.
C7_DiscoveryTimeout ==
  nodeAtCheck = "none" =>
    /\ elapsed * PollTicks >= discovery_timeout
    /\ conn = "none" /\ ~sent /\ edQueue = <<>> /\ stages[Len(stages)] = "discover"
    /\ pc \in {"fbx_finally", "fbx_exit"} => exc = "DiscoveryTimeout"
    /\ FbxEnded => fbxResult.kind = "raised" /\ fbxResult.exc = "DiscoveryTimeout"
    /\ JobFinished => Failed

C7_Witness ==
  /\ pc = "done" /\ nodeAtCheck = "none"
  /\ fbxResult.kind = "raised" /\ fbxResult.exc = "DiscoveryTimeout"

\* ------------------------------------------------------------- C8
\* C8: a started session is stopped by the time import_fbx has returned or
\* raised: outside import_fbx's try block no session is open.
C8_SessionReleased ==
  /\ session = "started" =>
       pc \in {"fbx_poll", "fbx_check", "fbx_open", "fbx_send", "fbx_await", "fbx_finally"}
  /\ FbxEnded => session = "stopped" \/ (session = "none" /\ "start_failed" \in faults)

C8_Witness ==
  /\ pc = "done" /\ session = "stopped"
  /\ fbxResult.kind = "raised" /\ fbxResult.exc = "ChannelError"

\* ------------------------------------------------------------- C9
\* C9 (as claimed): a fresh import's task imports into a staging folder, a
\* reimport's task writes to the final path, replacing what is there.
C9_FreshStagesReimportDirect ==
  /\ edTask.branch = "fresh" => IsStagingName(edTask.destination_path)
  /\ edTask.branch = "reimport" =>
       edTask.destination_path = Root /\ edTask.replace_existing

\* ------------------------------------------------------------- C10
StagingFolders(idx, vd, dk) ==
  { n \in { a.dir : a \in idx } \cup vd \cup { d.name : d \in dk } : IsStagingName(n) }

\* C10: the command reimports exactly when, at the decision, an asset is at
\* <target folder>/<input file's name without its extension>, and imports
\* fresh otherwise; a reimport creates no staging folder.
C10_ReimportIffAssetExists ==
  edTask.branch # "none" =>
    /\ edTask.branch \in {"fresh", "reimport"}
    /\ edTask.branch = "reimport" <=>
         \E a \in edTask.indexBefore : a.dir = Root /\ a.name = Stem(job.glb)
    /\ edTask.destination_name = Stem(job.glb)
    /\ edTask.branch = "reimport" =>
         StagingFolders(index, vdirs, disk)
           \subseteq StagingFolders(edTask.indexBefore, edTask.vdirsBefore, edTask.diskBefore)

C10_Witness ==
  /\ pc = "done" /\ EditorQuiet /\ edTask.branch = "reimport"
  /\ fbxResult.kind = "returned" /\ ~fbxResult.warning

\* ------------------------------------------------------------- C11
\* Staging-named folders: in the virtual index (as a folder or as the folder
\* of an asset) or as a directory on backing storage.
StagingDirsLeft ==
  { n \in { a.dir : a \in index } \cup vdirs
          \cup { d.name : d \in { e \in disk : e.kind = "dir" } } : IsStagingName(n) }

\* C11 (as claimed): once a job has ended, Succeeded or Failed, no staging-named
\* folder is left in the content folder, neither in the virtual index nor on
\* backing storage, leftovers from before the job included.
C11_NoStagingAfterJob ==
  JobFinished => StagingDirsLeft = {}

\* ------------------------------------------------------------- C12
\* The assets directly under the content folder that belong to the input of
\* this call: named after it, with or without a suffix.
AssetsFor(idx, name) ==
  { a \in idx : a.dir = Root /\ Len(a.name) >= Len(name)
                /\ SubSeq(a.name, 1, Len(name)) = name }

C13_TempDirGone ==
  /\ (JobFinished /\ ~job.source_folder) => ~tempExists
  /\ (caller = "run" /\ job.source_folder) => ~temp_dir /\ ~tempExists

\* C13 (amended): the temp directory of an ended job is gone unless its
\* deletion raised an error, and it exists only when the job made it; with a
\* persistent output folder requested no temp directory is made and the
\* clean-up deletes nothing; the clean-up never changes what 'finished' reported.
C13_TempDirGoneUnlessDeletionFails ==
  /\ [](/\ (JobFinished /\ "cleanup_error" \notin faults) => ~tempExists
        /\ (JobFinished /\ "cleanup_error" \in faults) => temp_dir /\ tempExists
        /\ tempExists => temp_dir /\ caller = "run" /\ ~job.source_folder
        /\ (caller = "run" /\ job.source_folder) => ~temp_dir)
  /\ [][pc = "run_finally" => finishedLog' = finishedLog /\ temp_dir' = temp_dir]_vars

C13_Witness ==
  JobFinished /\ temp_dir /\ tempExists /\ "cleanup_error" \in faults /\ Failed

\* ------------------------------------------------------------- C14
ConvFaults == {"tool_missing", "input_gone", "conv_timeout", "conv_nonzero"}
Started(stage) == \E i \in 1..Len(stages) : stages[i] = stage

C15_ConversionErrors ==
  /\ (caller = "conv" /\ pc = "done") =>
       /\ ~procAlive
       /\ convResult =
            ( IF ~convEnv.blender THEN "ToolNotFound"
              ELSE IF ~convEnv.input THEN "InputNotFound"
              ELSE IF convEnv.proc = "timeout" THEN "TimeoutExpired"
              ELSE IF convEnv.proc = "nonzero" THEN "CalledProcessError"
              ELSE "returned" )
       /\ spawned = (IF convEnv.blender /\ convEnv.input THEN 1 ELSE 0)
       /\ (failedAt = "convert") <=> (convResult # "returned")
  /\ (caller = "run" /\ failedAt = "convert") =>
       /\ session = "none" /\ ~sent /\ ~Started("discover")
       /\ JobFinished => Failed

C15_Witness ==
  /\ caller = "conv" /\ pc = "done" /\ convEnv.proc = "timeout"
  /\ convResult = "TimeoutExpired" /\ spawned = 1 /\ ~procAlive

\* ------------------------------------------------------------- C16
\* C16 (as claimed): the subprocess gets --input, --output and --decimate from
\* the job and --merge-children exactly when the job's merge_children flag is
\* set, so a job asked to merge child meshes, with nothing around it failing,
\* runs the tool with --merge-children.
C16_MergeChildrenPassed ==
  /\ spawned > 0 =>
       /\ argv.input = job.glb /\ argv.output = FbxNameOf(job.glb)
       /\ argv.decimate = job.decimate_ratio
       /\ argv.merge_children <=> job.merge_children
  /\ (JobFinished /\ job.merge_children /\ faults \subseteq {"cleanup_error"}) =>
       spawned = 1 /\ argv.merge_children

\* ------------------------------------------------------------- C17
\* C17 (as claimed): at most one worker is between its start and the handling
\* of its outcome, and while there is one, _worker and _worker_thread name it:
\* nothing the user does in the window starts a second one or replaces it.
C17_OneJobAtATime ==
  /\ Cardinality(Unhandled) <= 1
  /\ \A i \in Unhandled : worker = i /\ worker_thread = i
  /\ ~crashed

\* ------------------------------------------------------------- C18
\* C18: the progress values a job emits are strictly increasing and within
\* 0..100 at every point of every path, and a job whose progress reached 100
\* reports success: it ends Succeeded.
C18_ProgressMonotone ==
  /\ \A i \in 1..Len(progressLog) : progressLog[i] \in 0..100
  /\ \A i \in 1..Len(progressLog) : \A k \in 1..Len(progressLog) :
       i < k => progressLog[i] < progressLog[k]
  /\ (\E i \in 1..Len(progressLog) : progressLog[i] = 100) =>
       /\ caller = "run" /\ pc \in {"run_finally", "done"}
       /\ Succeeded

C18_Witness ==
  JobFinished /\ Failed /\ progressLog = <<5, 15>>

\* ------------------------------------------------------------- C19
\* The time the discovery loop has taken since its first check, in ticks.
LoopTime == elapsed * PollTicks

\* C19 (as claimed): a discovery loop in which no node appeared ends no
\* earlier than its timeout and no later than one poll interval after it,
\* counted from its first check, and never sooner than one poll interval
\* after that check.
C19_DiscoveryTiming ==
  nodeAtCheck = "none" =>
    /\ discovery_timeout <= LoopTime
    /\ LoopTime <= discovery_timeout + PollTicks
    /\ LoopTime >= PollTicks

\* C19 (amended): a discovery loop in which no node appeared ends no earlier
\* than its timeout and less than one poll interval after it, counted from its
\* first check, and, when the timeout is above zero, no sooner than one poll
\* interval after that check: with a timeout of zero it ends at its first
\* check.  A loop that finds a node known at one of its checks ends at that
\* check, with no further sleep.
C19_DiscoveryTimingPositiveTimeout ==
  /\ [](nodeAtCheck = "none" =>
          /\ discovery_timeout <= LoopTime
          /\ LoopTime < discovery_timeout + PollTicks
          /\ discovery_timeout > 0 => LoopTime >= PollTicks
          /\ discovery_timeout = 0 => LoopTime = 0)
  /\ [][(pc = "fbx_poll" /\ nodes) => (pc' = "fbx_check" /\ elapsed' = elapsed)]_vars
  /\ [][(pc = "fbx_poll" /\ ~nodes /\ pc' = "fbx_check") =>
          LoopTime >= discovery_timeout]_vars

C19_Witness ==
  /\ pc = "done" /\ nodeAtCheck = "none" /\ discovery_timeout = 1
  /\ elapsed = 1 /\ fbxResult.exc = "DiscoveryTimeout"

\* ------------------------------------------------------------- C20
Materials(idx) == { a \in idx : a.cls \in MaterialClasses }
CommandCompleted == \E r \in edResp : r.id = calls /\ r.success
ReturnedEarly == edTask.branch = "fresh" /\ edImported = {}

\* C20 (as claimed): after a completed command with import_materials set, by
\* either branch, the Materials folder exists and no material is directly
\* under the content folder; with import_materials not set no material has
\* moved and no Materials folder was made.
C20_MaterialsRelocated ==
  CommandCompleted =>
    IF job.import_materials
    THEN MaterialsDir \in vdirs /\ RootMaterials(index) = {}
    ELSE /\ Materials(index) = Materials(edTask.indexBefore)
         /\ MaterialsDir \in vdirs <=> MaterialsDir \in edTask.vdirsBefore

\* C20 (amended): after a completed command with import_materials set, unless
\* it was a fresh import that reported no imported asset, the Materials folder
\* exists, no material is directly under the content folder, for every
\* material that was there one is at Materials/<its name>, and Materials holds
\* one asset per name.  A fresh import that reported nothing returns at once: it moves
\* nothing and makes no folder.  With import_materials not set no material
\* has moved and no Materials folder was made.
C20_MaterialsRelocatedUnlessNothingImported ==
  CommandCompleted =>
    /\ (job.import_materials /\ ~ReturnedEarly) =>
         /\ MaterialsDir \in vdirs /\ RootMaterials(index) = {}
         /\ \A m \in RootMaterials(edTask.indexBefore) :
              \E a \in Materials(index) : a.dir = MaterialsDir /\ a.name = m.name
         /\ \A a \in index : \A b \in index :
              (a.dir = MaterialsDir /\ b.dir = MaterialsDir /\ a.name = b.name) => a = b
    /\ ReturnedEarly =>
         index = edTask.indexBefore /\ vdirs = edTask.vdirsBefore
    /\ ~job.import_materials =>
         /\ Materials(index) = Materials(edTask.indexBefore)
         /\ MaterialsDir \in vdirs <=> MaterialsDir \in edTask.vdirsBefore

\* The second command of two finds a material at Materials/M and another
\* directly under the content folder, and completes.
C20_Witness ==
  /\ CommandCompleted /\ job.import_materials /\ ~ReturnedEarly /\ EditorQuiet
  /\ \E a \in edTask.indexBefore : a.dir = MaterialsDir /\ a.name = MatName
  /\ Asset(MaterialsDir, MatName, "Material") \in index
  /\ Asset(MaterialsDir, MatName, "Material") \notin edTask.indexBefore

\* ------------------------------------------------------------- C21
\* C21: after merge_mesh_groups, for every EMPTY object of the loaded file
\* that had at least one direct MESH child, the scene holds exactly one mesh
\* with the group's original name, that mesh is what is left of the group's
\* mesh children and has all their polygons, and the group object is gone.
C21_OneMeshPerGroup ==
  (args.merge_children /\ spc = "decimate") =>
    \A g \in EmptyParents(loaded) :
      LET named == { i \in DOMAIN scene :
                       scene[i].type = "MESH" /\ scene[i].name = loaded[g].name }
      IN  /\ Cardinality(named) = 1
          /\ MeshChildren(loaded, g) \cap DOMAIN scene = named
          /\ \A i \in named :
               scene[i].polys = SumPolys(loaded, MeshChildren(loaded, g))
          /\ g \notin DOMAIN scene
          /\ \A i \in DOMAIN scene : scene[i].name = loaded[g].name => i \in named

\* merge_mesh_groups has run on a file with two groups, one nested in the
\* other, each with a mesh of its own.
C21_Witness ==
  /\ args.merge_children /\ spc = "decimate"
  /\ \E g1, g2 \in EmptyParents(loaded) : loaded[g2].parent = g1

\* ------------------------------------------------------------- C22
\* The newest of the installed versions, by version number.
Newest(installs) ==
  CHOOSE v \in installs :
    \A w \in installs \ {v} :
      w.major < v.major \/ (w.major = v.major /\ w.minor < v.minor)

OverrideValid == host.env = "set" /\ host.env_isfile
HasInstalls == host.platform = "win32" /\ host.installs # {}

\* C22: what find_blender returned is the first match of: the path of
\* BLENDER_PATH when it is set and names a file; on win32 the newest version
\* among the installs the pattern matches; what the search path resolves;
\* the Steam path when that file exists; otherwise nothing.
C22_SearchOrder ==
  located # NotAsked =>
    /\ OverrideValid => located = EnvPath
    /\ (~OverrideValid /\ HasInstalls) =>
         located = InstallPath(Newest(host.installs))
    /\ (~OverrideValid /\ ~HasInstalls /\ host.which) => located = WhichPath
    /\ (~OverrideValid /\ ~HasInstalls /\ ~host.which /\ host.steam) =>
         located = SteamPath
    /\ (~OverrideValid /\ ~HasInstalls /\ ~host.which /\ ~host.steam) =>
         located = None

\* ------------------------------------------------------------- C23
Meshes(s) == { i \in DOMAIN s : s[i].type = "MESH" }

\* C23: with a ratio of 1.0 or more decimate_meshes applies no modifier and
\* every mesh keeps its polygon count; with a ratio below 1.0 every mesh
\* object of the scene, and nothing else, gets the modifier applied once.
C23_DecimateOnlyBelowOne ==
  [][ spc = "decimate" =>
        /\ DOMAIN scene' = DOMAIN scene
        /\ \A i \in DOMAIN scene \ Meshes(scene) : scene'[i] = scene[i]
        /\ args.decimate >= FullRatio =>
             \A i \in Meshes(scene) :
               /\ scene'[i].applied = scene[i].applied
               /\ scene'[i].polys = scene[i].polys
        /\ args.decimate < FullRatio =>
             \A i \in Meshes(scene) :
               scene'[i].applied = Append(scene[i].applied, "DECIMATE") ]_vars

\* decimate_meshes has returned, called with exactly 1.0 on a scene that
\* holds meshes.
C23_Witness ==
  /\ spc = "export" /\ args.decimate = FullRatio
  /\ Meshes(scene) # {}
  /\ \A i \in Meshes(scene) : scene[i].applied = <<>>

\* ------------------------------------------------------------- C24
\* C24: in every executed command the sweep is the first step, before the
\* existence check and before any import; when it has finished, no
\* staging-named folder is left in the content folder, neither in the
\* virtual index nor on backing storage.
C24_SweepFirstAndComplete ==
  edpc = "import" =>
    /\ edTask = NoTask /\ edImported = {}
    /\ StagingDirsLeft = {}

\* ------------------------------------------------------------- C25
\* The EMPTY objects of a scene that have no children.
ChildlessEmpties(s) ==
  { i \in DOMAIN s : s[i].type = "EMPTY" /\ Children(s, i) = {} }

\* C25: after merge_mesh_groups no EMPTY object without children is left in
\* the scene, chains of nested EMPTY objects included.
C25_NoChildlessEmptyLeft ==
  (args.merge_children /\ spc = "decimate") => ChildlessEmpties(scene) = {}

\* ------------------------------------------------------------- C26
\* The window is idle: no worker thread is held, Browse is enabled, the
\* progress bar is hidden.
WindowIdle == worker_thread = 0 /\ browse_btn /\ ~progress_bar

\* C26: every job the window started eventually has its terminal outcome
\* handled, and the window is then idle with its controls enabled again.
C26_JobEndsWindowIdle ==
  \A i \in 1..MaxJobs :
    (threads[i].st = "running") ~> (threads[i].st = "handled" /\ WindowIdle)

\* ------------------------------------------------------------- C27
\* What the sweep has no business with: the assets outside staging-named
\* folders, the virtual folders and the entries on backing storage that are
\* not staging-named directories.
KeptAssets(idx) == { a \in idx : ~IsStagingName(a.dir) }
KeptFolders(vd) == { d \in vd : ~IsStagingName(d) }
KeptEntries(dk) == { e \in dk : ~(IsStagingName(e.name) /\ e.kind = "dir") }

\* C27: a sweep step leaves every asset and folder whose folder name does not
\* start with the staging prefix, and every entry on backing storage that is
\* not a staging-named directory, as it was; what it removes from the index
\* are assets inside staging-named folders that are directories on disk.
C27_SweepFrame ==
  [][ edpc = "sweep" =>
        /\ KeptAssets(index') = KeptAssets(index)
        /\ KeptFolders(vdirs') = KeptFolders(vdirs)
        /\ KeptEntries(disk') = KeptEntries(disk)
        /\ diskDir' = diskDir
        /\ index' \subseteq index /\ vdirs' \subseteq vdirs /\ disk' \subseteq disk
        /\ \A a \in index \ index' :
             \E e \in disk : e.name = a.dir /\ e.kind = "dir" ]_vars

\* The sweep has removed a staging directory and reported it, and a root
\* asset and a staging-named file are where they were.
C27_Witness ==
  /\ edpc = "import" /\ cleaned = {S1}
  /\ Asset(Root, <<"A">>, "StaticMesh") \in index
  /\ [name |-> S2, kind |-> "file"] \in disk
  /\ [name |-> S1, kind |-> "dir"] \notin disk
====
